---- MODULE Spec2Model ----
(***************************************************************************)
(* DATN Smart Light mock API server (src/main.py): three process-wide      *)
(* dictionaries and the five request handlers that read and write them.    *)
(*                                                                         *)
(* The handlers are coroutines on one event loop.  A coroutine is          *)
(* suspended only at an await; register_device, report_status and          *)
(* test_send_command each have exactly one, `await request.json()`, as     *)
(* their first statement, and get_command and test_status have none.  So   *)
(* every handler touches the dictionaries in one uninterrupted run, and    *)
(* the only position a task can be parked at is that first await.          *)
(***************************************************************************)
EXTENDS Integers, Sequences, FiniteSets, Bags, TLC

VARIABLES
    registered_gateways,  \* dict mac -> {mac, registered_at, last_seen}
    node_status,          \* dict deviceId -> {brightness, lux, current, timestamp, gateway}
    command_queue,        \* dict mac -> list of commands
    now,                  \* what the last time.time() call returned
    awaiting,             \* per handler: tasks suspended at `await request.json()`
    event,                \* the handler run, or arrival, that produced this state
    sent,                 \* history: per queue key, every command appended, in order
    got,                  \* history: per queue key, every command a poll returned, in order
    batches,              \* history: per queue key, the inject batches no poll has taken yet
    registrations,        \* history: the identifiers register was called for
    last_update           \* history: per deviceId, the last node update processed and its gw_id

stores == <<registered_gateways, node_status, command_queue>>
history == <<sent, got, batches, registrations, last_update>>
vars == <<registered_gateways, node_status, command_queue, now, awaiting, event,
          sent, got, batches, registrations, last_update>>

-----------------------------------------------------------------------------
(* Bounds of the model *)

MaxTime == 1        \* time.time() returns 0..MaxTime
MaxInFlight == 2    \* tasks parked at their await at the same time
MaxBatch == 2       \* commands in one inject body
MaxSent == 2        \* commands appended to the queues over a run
MaxDevices == 2     \* node updates in one report body

-----------------------------------------------------------------------------
(* Python values *)

UNKNOWN == "UNKNOWN"

\* Python's None (dict.get with no default); no str equals it, so no path
\* parameter and no JSON string does.
PyNone == "<None>"

\* A JSON object is a function from its keys to its values; {} is EmptyDict.
EmptyDict == [k \in {} |-> 0]

\* d.get(k, default)
Get(d, k, default) == IF k \in DOMAIN d THEN d[k] ELSE default

\* d[k] = v
Put(d, k, v) == [x \in (DOMAIN d) \cup {k} |-> IF x = k THEN v ELSE d[x]]

\* The handler returned `body` (HTTP 200).
Returned(body) == [status |-> 200, body |-> body]

\* The handler raised `exc`; the framework answers 500 and no body of the handler's.
Raised(exc) == [status |-> 500, raised |-> exc]

IsOk(r) == r.status = 200 /\ r.body.ok

\* cmd['deviceId'] and cmd['brightness'] both evaluate (no KeyError).
Printable(cmd) == "deviceId" \in DOMAIN cmd /\ "brightness" \in DOMAIN cmd

\* The print loop `for cmd in commands: print(f"{cmd['deviceId']}: {cmd['brightness']}")`
\* runs to its end.
PrintLoopCompletes(commands) == \A i \in 1..Len(commands) : Printable(commands[i])

-----------------------------------------------------------------------------
(* The handlers, as functions of the dictionaries they read *)

\* register_device without lines 72-73: the gateway is recorded and no queue
\* is created for it.
register_device_no_queue(rg, cq, body, t1, t2) ==
    LET mac == Get(body, "mac", UNKNOWN)
    IN  [ registered_gateways |->
              Put(rg, mac, [mac |-> mac, registered_at |-> t1, last_seen |-> t2]),
          command_queue |-> cq,
          response |-> Returned([ok |-> TRUE, deviceId |-> mac]) ]

\* register_device with the record stored inside `if mac not in command_queue:`,
\* so that an identifier that already has a queue gets no record.
register_device_only_new_queue(rg, cq, body, t1, t2) ==
    LET mac == Get(body, "mac", UNKNOWN)
    IN  [ registered_gateways |->
              IF mac \notin DOMAIN cq
              THEN Put(rg, mac, [mac |-> mac, registered_at |-> t1, last_seen |-> t2])
              ELSE rg,
          command_queue |->
              IF mac \notin DOMAIN cq THEN Put(cq, mac, <<>>) ELSE cq,
          response |-> Returned([ok |-> TRUE, deviceId |-> mac]) ]

\* register_device keeping the first registration's time, as
\* registered_gateways.setdefault(mac, {...}) followed by an update of
\* last_seen would.
register_device_keeps_registered_at(rg, cq, body, t1, t2) ==
    LET mac == Get(body, "mac", UNKNOWN)
        first == IF mac \in DOMAIN rg THEN rg[mac].registered_at ELSE t1
    IN  [ registered_gateways |->
              Put(rg, mac, [mac |-> mac, registered_at |-> first, last_seen |-> t2]),
          command_queue |->
              IF mac \notin DOMAIN cq THEN Put(cq, mac, <<>>) ELSE cq,
          response |-> Returned([ok |-> TRUE, deviceId |-> mac]) ]

\* POST /devices/register.  t1, t2: the two time.time() calls, in order.
register_device(rg, cq, body, t1, t2) ==
    LET mac == Get(body, "mac", UNKNOWN)
    IN  [ registered_gateways |->
              Put(rg, mac, [mac |-> mac, registered_at |-> t1, last_seen |-> t2]),
          command_queue |->
              IF mac \notin DOMAIN cq THEN Put(cq, mac, <<>>) ELSE cq,
          response |-> Returned([ok |-> TRUE, deviceId |-> mac]) ]

\* The record one node update leaves in node_status (device.get defaults;
\* 0.0 and 0 are the same JSON number).
NodeRecord(device, gw_id, t) ==
    [ brightness |-> Get(device, "brightness", 0),
      lux        |-> Get(device, "lux", 0),
      current    |-> Get(device, "current", 0),
      timestamp  |-> t,
      gateway    |-> gw_id ]

\* StoreUpdate writing field by field into the record that is there,
\* node_status[device_id]["brightness"] = ..., and setting "gateway" only
\* when it creates the record: an update of a known node leaves a record with
\* one report's values and another report's gateway.
StoreUpdate_keeps_gateway(ns, device, gw_id, t) ==
    LET device_id == Get(device, "deviceId", UNKNOWN)
        fresh == NodeRecord(device, gw_id, t)
    IN  Put(ns, device_id,
            IF device_id \in DOMAIN ns
            THEN [fresh EXCEPT !.gateway = ns[device_id].gateway]
            ELSE fresh)

\* StoreUpdate as node_status[device_id].update(...) would do it: a field the
\* update leaves out keeps the value of the record that was there.
StoreUpdate_merges(ns, device, gw_id, t) ==
    LET device_id == Get(device, "deviceId", UNKNOWN)
        fresh == NodeRecord(device, gw_id, t)
    IN  Put(ns, device_id,
            [f \in DOMAIN fresh |->
                IF f \in {"brightness", "lux", "current"} /\ f \notin DOMAIN device
                   /\ device_id \in DOMAIN ns
                THEN ns[device_id][f] ELSE fresh[f]])

\* One iteration of the loop: node_status[device_id] = {...}, a whole new
\* record in place of whatever was there.
StoreUpdate(ns, device, gw_id, t) ==
    LET device_id == Get(device, "deviceId", UNKNOWN)
    IN  Put(ns, device_id, NodeRecord(device, gw_id, t))

\* `for device in devices: ...`; stamps[i] is what time.time() returns in
\* the i-th iteration.
RECURSIVE ReportLoop(_, _, _, _)
ReportLoop(ns, devices, gw_id, stamps) ==
    IF devices = <<>> THEN ns
    ELSE ReportLoop(StoreUpdate(ns, Head(devices), gw_id, Head(stamps)),
                    Tail(devices), gw_id, Tail(stamps))

\* POST /devices/report
report_status(ns, body, stamps) ==
    LET gw_id   == Get(body, "gw_id", UNKNOWN)
        devices == Get(body, "devices", <<>>)
    IN  [ node_status |-> ReportLoop(ns, devices, gw_id, stamps),
          response    |-> Returned([ok |-> TRUE]) ]

\* get_command draining with commands = command_queue.pop(device_mac): the
\* drained gateway loses its queue entry.
get_command_deletes_queue(cq, device_mac) ==
    IF device_mac \in DOMAIN cq /\ Len(cq[device_mac]) > 0
    THEN LET commands == cq[device_mac]
         IN  [ command_queue |-> [k \in DOMAIN cq \ {device_mac} |-> cq[k]],
               response |-> IF PrintLoopCompletes(commands)
                            THEN Returned([ok |-> TRUE, devices |-> commands])
                            ELSE Raised("KeyError") ]
    ELSE [ command_queue |-> cq,
           response |-> Returned([ok |-> TRUE, devices |-> <<>>]) ]

\* get_command reading the queue as command_queue.setdefault(device_mac, [])
\* would: a poll of an identifier without a queue leaves it an empty one.
get_command_creates_queue(cq, device_mac) ==
    IF device_mac \in DOMAIN cq /\ Len(cq[device_mac]) > 0
    THEN LET commands == cq[device_mac]
         IN  [ command_queue |-> Put(cq, device_mac, <<>>),
               response |-> IF PrintLoopCompletes(commands)
                            THEN Returned([ok |-> TRUE, devices |-> commands])
                            ELSE Raised("KeyError") ]
    ELSE [ command_queue |-> Put(cq, device_mac, <<>>),
           response |-> Returned([ok |-> TRUE, devices |-> <<>>]) ]

\* get_command clearing with command_queue.clear()-like reach: the drain
\* empties every gateway's queue, not only the polled one.
get_command_clears_all(cq, device_mac) ==
    IF device_mac \in DOMAIN cq /\ Len(cq[device_mac]) > 0
    THEN LET commands == cq[device_mac]
         IN  [ command_queue |-> [k \in DOMAIN cq |-> <<>>],
               response |-> IF PrintLoopCompletes(commands)
                            THEN Returned([ok |-> TRUE, devices |-> commands])
                            ELSE Raised("KeyError") ]
    ELSE [ command_queue |-> cq,
           response |-> Returned([ok |-> TRUE, devices |-> <<>>]) ]

\* GET /devices/{device_mac}/next-command.  The queue is replaced by [] before
\* the print loop reads cmd['deviceId'] and cmd['brightness'].
get_command(cq, device_mac) ==
    IF device_mac \in DOMAIN cq /\ Len(cq[device_mac]) > 0
    THEN LET commands == cq[device_mac]
         IN  [ command_queue |-> Put(cq, device_mac, <<>>),
               response |-> IF PrintLoopCompletes(commands)
                            THEN Returned([ok |-> TRUE, devices |-> commands])
                            ELSE Raised("KeyError") ]
    ELSE [ command_queue |-> cq,
           response |-> Returned([ok |-> TRUE, devices |-> <<>>]) ]

\* f"Added {len(commands)} command(s) to queue"
AddedMessage(n) == <<"Added", n, "command(s) to queue">>

\* POST /test/send-command.  data.get("gateway_mac") has no default; the
\* extend comes before the print loop.
test_send_command(cq, body) ==
    LET gateway_mac == Get(body, "gateway_mac", PyNone)
        commands    == Get(body, "commands", <<>>)
        cq1 == IF gateway_mac \notin DOMAIN cq THEN Put(cq, gateway_mac, <<>>) ELSE cq
    IN  [ command_queue |-> Put(cq1, gateway_mac, cq1[gateway_mac] \o commands),
          response |-> IF PrintLoopCompletes(commands)
                       THEN Returned([ok |-> TRUE, message |-> AddedMessage(Len(commands))])
                       ELSE Raised("KeyError") ]

\* test_status building command_queues from the registry,
\* {k: len(command_queue[k]) for k in registered_gateways}: the queue of an
\* identifier that never registered is left out.
test_status_registered_only(rg, ns, cq) ==
    Returned([ ok |-> TRUE,
               registered_gateways |-> DOMAIN rg,
               node_status |-> ns,
               command_queues |-> [k \in DOMAIN cq \cap DOMAIN rg |-> Len(cq[k])] ])

\* GET /test/status
test_status(rg, ns, cq) ==
    Returned([ ok |-> TRUE,
               registered_gateways |-> DOMAIN rg,
               node_status |-> ns,
               command_queues |-> [k \in DOMAIN cq |-> Len(cq[k])] ])

-----------------------------------------------------------------------------
(* Requests the clients send *)

Macs == {"GW_A", "GW_B"}

\* Every key command_queue can get: a mac, the register default, the inject default.
QueueKeys == Macs \cup {UNKNOWN, PyNone}

CmdA == [deviceId |-> "ND_01", brightness |-> 70]
CmdB == [deviceId |-> "ND_02", brightness |-> 60]
CmdNoDevice == [brightness |-> 50]
CmdNoBrightness == [deviceId |-> "ND_01"]

UpdFull   == [deviceId |-> "ND_01", brightness |-> 10, lux |-> 543, current |-> 1]
UpdPart   == [deviceId |-> "ND_01", brightness |-> 90]
UpdOther  == [deviceId |-> "ND_02", lux |-> 612]
UpdNoId   == [brightness |-> 30]

SeqsUpTo(S, n) == UNION {[1..k -> S] : k \in 0..n}

\* Request bodies: each identifier present or missing, each list present or missing.
RegisterBodiesOf(macs) == {[mac |-> m] : m \in macs} \cup {EmptyDict}

ReportBodiesOf(gws, updates, n) ==
    {[gw_id |-> g, devices |-> ds] : g \in gws, ds \in SeqsUpTo(updates, n)}
    \cup {[devices |-> ds] : ds \in SeqsUpTo(updates, n)}
    \cup {[gw_id |-> g] : g \in gws}

InjectBodiesOf(gws, cmds, n) ==
    {[gateway_mac |-> g, commands |-> cs] : g \in gws, cs \in SeqsUpTo(cmds, n)}
    \cup {[commands |-> cs] : cs \in SeqsUpTo(cmds, n)}
    \cup {[gateway_mac |-> g] : g \in gws}

PollMacs == Macs \cup {UNKNOWN}

Handlers == {"register", "report", "inject"}

\* What the next n time.time() calls can return, `now` being what the last
\* call returned: time does not run backwards, and the model's clock moves
\* one unit at a time and stops at MaxTime.
ClockReads(n) ==
    {s \in [1..n -> now..MaxTime] :
        \A i \in 1..n : LET prev == IF i = 1 THEN now ELSE s[i-1]
                        IN  prev <= s[i] /\ s[i] <= prev + 1}

InFlight == awaiting["register"] + awaiting["report"] + awaiting["inject"]

RECURSIVE SumLen(_, _)
SumLen(f, keys) ==
    IF keys = {} THEN 0
    ELSE LET k == CHOOSE x \in keys : TRUE IN Len(f[k]) + SumLen(f, keys \ {k})

\* commands appended so far, over all queues
TotalSent == SumLen(sent, QueueKeys)

\* The identifier a request names in `field`: the field's value, and the
\* sentinel the specification gives a request that leaves the field out.
Identifier(body, field) == IF field \in DOMAIN body THEN body[field] ELSE UNKNOWN

\* The pending commands of queue key k; none when k has no queue.
Pending(cq, k) == IF k \in DOMAIN cq THEN cq[k] ELSE <<>>

\* History bookkeeping for an inject: what queue k holds in `new` beyond
\* what it held in `old`.
Appended(old, new, k) ==
    SubSeq(Pending(new, k), Len(Pending(old, k)) + 1, Len(Pending(new, k)))

\* The commands of a sequence of batches, in order.
RECURSIVE Flatten(_)
Flatten(bs) == IF bs = <<>> THEN <<>> ELSE Head(bs) \o Flatten(Tail(bs))

\* History bookkeeping for a poll: the batches of queue k the poll left in
\* the queue `new` (a batch it took a part of is no longer one).
RECURSIVE Untaken(_, _, _)
Untaken(bs, new, k) ==
    IF bs = <<>> \/ Len(Flatten(bs)) <= Len(Pending(new, k)) THEN bs
    ELSE Untaken(Tail(bs), new, k)

\* History bookkeeping for a report: after the updates `devices` of a report
\* from gw_id, the last update processed for each deviceId named.
RECURSIVE Processed(_, _, _)
Processed(lu, devices, gw_id) ==
    IF devices = <<>> THEN lu
    ELSE Processed(Put(lu, Identifier(Head(devices), "deviceId"),
                       [update |-> Head(devices), gw_id |-> gw_id]),
                   Tail(devices), gw_id)

-----------------------------------------------------------------------------
(* Steps *)

Init ==
    /\ registered_gateways = EmptyDict
    /\ node_status = EmptyDict
    /\ command_queue = EmptyDict
    /\ now = 0
    /\ awaiting = [h \in Handlers |-> 0]
    /\ event = [op |-> "start"]
    /\ sent = [k \in QueueKeys |-> <<>>]
    /\ got = [k \in QueueKeys |-> <<>>]
    /\ batches = [k \in QueueKeys |-> <<>>]
    /\ registrations = {}
    /\ last_update = EmptyDict

\* A request for handler h arrives: its task starts and parks at
\* `data = await request.json()`.
Arrive(h, tasks) ==
    /\ InFlight < tasks
    /\ awaiting' = [awaiting EXCEPT ![h] = @ + 1]
    /\ event' = [op |-> "arrive", handler |-> h]
    /\ UNCHANGED <<stores, now, history>>

Register(body) ==
    /\ awaiting["register"] > 0
    /\ awaiting' = [awaiting EXCEPT !["register"] = @ - 1]
    /\ \E ts \in ClockReads(2) :
          LET out == register_device(registered_gateways, command_queue, body, ts[1], ts[2])
          IN  /\ registered_gateways' = out.registered_gateways
              /\ command_queue' = out.command_queue
              /\ now' = ts[2]
              /\ event' = [op |-> "register", body |-> body,
                           known |-> DOMAIN registered_gateways,
                           response |-> out.response]
    /\ registrations' = registrations \cup {Identifier(body, "mac")}
    /\ UNCHANGED <<node_status, sent, got, batches, last_update>>

\* The report handler treating a report as a sign of life: it also stores
\* registered_gateways[gw_id] = {..., "last_seen": time.time()}, registering
\* a gateway that never registered.
Report_marks_gateway_seen(body) ==
    /\ awaiting["report"] > 0
    /\ awaiting' = [awaiting EXCEPT !["report"] = @ - 1]
    /\ LET devices == Get(body, "devices", <<>>)
           n == Len(devices)
           gw_id == Get(body, "gw_id", UNKNOWN)
       IN  /\ \E ts \in ClockReads(n) :
                LET out == report_status(node_status, body, ts)
                    seen == IF n = 0 THEN now ELSE ts[n]
                IN  /\ node_status' = out.node_status
                    /\ now' = seen
                    /\ registered_gateways' =
                           Put(registered_gateways, gw_id,
                               [ mac |-> gw_id,
                                 registered_at |->
                                     IF gw_id \in DOMAIN registered_gateways
                                     THEN registered_gateways[gw_id].registered_at
                                     ELSE seen,
                                 last_seen |-> seen ])
                    /\ event' = [op |-> "report",
                                 fields |-> DOMAIN body,
                                 gw_id |-> Identifier(body, "gw_id"),
                                 updates |-> n,
                                 unnamed |-> {i \in 1..n : "deviceId" \notin DOMAIN devices[i]},
                                 overwrote |-> {Identifier(devices[i], "deviceId") : i \in 1..n}
                                                  \cap DOMAIN node_status,
                                 response |-> out.response]
           /\ last_update' = Processed(last_update, devices, Identifier(body, "gw_id"))
    /\ UNCHANGED <<command_queue, sent, got, batches, registrations>>

Report(body) ==
    /\ awaiting["report"] > 0
    /\ awaiting' = [awaiting EXCEPT !["report"] = @ - 1]
    /\ LET devices == Get(body, "devices", <<>>)
           n == Len(devices)
       IN  /\ \E ts \in ClockReads(n) :
                LET out == report_status(node_status, body, ts)
                IN  /\ node_status' = out.node_status
                    /\ now' = IF n = 0 THEN now ELSE ts[n]
                    /\ event' = [op |-> "report",
                                 fields |-> DOMAIN body,
                                 gw_id |-> Identifier(body, "gw_id"),
                                 updates |-> n,
                                 unnamed |-> {i \in 1..n : "deviceId" \notin DOMAIN devices[i]},
                                 overwrote |-> {Identifier(devices[i], "deviceId") : i \in 1..n}
                                                  \cap DOMAIN node_status,
                                 response |-> out.response]
           /\ last_update' = Processed(last_update, devices, Identifier(body, "gw_id"))
    /\ UNCHANGED <<registered_gateways, command_queue, sent, got, batches, registrations>>

Poll(device_mac) ==
    LET out == get_command(command_queue, device_mac)
    IN  /\ command_queue' = out.command_queue
        /\ event' = [op |-> "poll", mac |-> device_mac,
                     before |-> Pending(command_queue, device_mac),
                     batches |-> batches[device_mac],
                     response |-> out.response]
        /\ got' = IF IsOk(out.response)
                  THEN [got EXCEPT ![device_mac] = @ \o out.response.body.devices]
                  ELSE got
        /\ batches' = [batches EXCEPT ![device_mac] = Untaken(@, out.command_queue, device_mac)]
        /\ UNCHANGED <<registered_gateways, node_status, now, awaiting, sent, registrations, last_update>>

Inject(body) ==
    LET key == Get(body, "gateway_mac", PyNone)
        commands == Get(body, "commands", <<>>)
        out == test_send_command(command_queue, body)
    IN  /\ awaiting["inject"] > 0
        /\ TotalSent + Len(commands) <= MaxSent
        /\ awaiting' = [awaiting EXCEPT !["inject"] = @ - 1]
        /\ command_queue' = out.command_queue
        /\ sent' = [k \in QueueKeys |->
                       sent[k] \o Appended(command_queue, out.command_queue, k)]
        /\ batches' = IF commands = <<>> THEN batches
                       ELSE [batches EXCEPT ![key] = Append(@, commands)]
        /\ event' = [op |-> "inject", body |-> body,
                     before |-> Pending(command_queue, key),
                     response |-> out.response]
        /\ UNCHANGED <<registered_gateways, node_status, now, got, registrations, last_update>>

Status ==
    /\ event' = [op |-> "status",
                 response |-> test_status(registered_gateways, node_status, command_queue)]
    /\ UNCHANGED <<stores, now, awaiting, history>>

\* The server under clients that send the given requests, at most `tasks`
\* of them waiting for their body at a time.
Serve(tasks, registers, reports, polls, injects) ==
    \/ \E h \in Handlers : Arrive(h, tasks)
    \/ \E body \in registers : Register(body)
    \/ \E body \in reports : Report(body)
    \/ \E device_mac \in polls : Poll(device_mac)
    \/ \E body \in injects : Inject(body)
    \/ Status

\* Clients that exercise the command queues, one request at a time: two
\* gateways that are sent commands, with and without their fields, and poll;
\* one of them registers and reports.
Next ==
    Serve(1, {[mac |-> "GW_A"]},
          {[gw_id |-> "GW_A", devices |-> <<UpdPart>>]},
          PollMacs,
          {[gateway_mac |-> g, commands |-> cs] :
               g \in Macs, cs \in SeqsUpTo({CmdA, CmdNoDevice}, MaxBatch)}
          \cup {[gateway_mac |-> g] : g \in Macs})

Spec == Init /\ [][Next]_vars

\* Clients whose bodies may lack any identifier or list, and whose commands
\* may lack a field.
NextDefaults ==
    Serve(1, RegisterBodiesOf({"GW_A"}),
          ReportBodiesOf({"GW_A"}, {UpdNoId}, 1),
          PollMacs,
          InjectBodiesOf({"GW_A"}, {CmdA, CmdNoBrightness}, 1))

SpecDefaults == Init /\ [][NextDefaults]_vars

\* Clients that exercise the node status table, their reports in flight
\* together.
NextReport ==
    Serve(MaxInFlight, {[mac |-> "GW_A"]},
          {[gw_id |-> g, devices |-> ds] :
               g \in Macs, ds \in SeqsUpTo({UpdFull, UpdPart}, MaxDevices)}
          \cup {[gw_id |-> "GW_B", devices |-> <<UpdOther>>]},
          {"GW_A"},
          {[gateway_mac |-> "GW_A", commands |-> <<CmdA, CmdB>>]})

SpecReport == Init /\ [][NextReport]_vars

\* Clients that exercise the gateway registry.
NextRegistry ==
    Serve(1, RegisterBodiesOf(Macs),
          {[gw_id |-> "GW_A", devices |-> <<UpdPart>>]},
          {"GW_A"},
          {[gateway_mac |-> g, commands |-> <<CmdA>>] : g \in Macs})

SpecRegistry == Init /\ [][NextRegistry]_vars

\* Clients that inject batches for one gateway while it polls, their
\* requests in flight together.
NextBatch ==
    Serve(MaxInFlight, {[mac |-> "GW_A"]},
          {[gw_id |-> "GW_A"]},
          {"GW_A"},
          {[gateway_mac |-> "GW_A", commands |-> cs] :
               cs \in SeqsUpTo({CmdA, CmdB, CmdNoDevice}, MaxBatch)})

SpecBatch == Init /\ [][NextBatch]_vars

-----------------------------------------------------------------------------
(* Properties *)

Queue(k) == Pending(command_queue, k)

\* The commands of a sequence, as a multiset.
BagOfSeq(q) == [c \in {q[i] : i \in 1..Len(q)} |-> Cardinality({i \in 1..Len(q) : q[i] = c})]

\* C1 - Drain exactness: a poll of G that finds N >= 1 pending commands
\* returns exactly those N commands, in the order they were appended, and
\* leaves G's queue empty.
C1_DrainExactness ==
    (event.op = "poll" /\ Len(event.before) >= 1)
        => /\ event.response = Returned([ok |-> TRUE, devices |-> event.before])
           /\ Queue(event.mac) = <<>>

\* C2 - Concurrent enqueue/drain safety: once every handler has finished, for
\* each queue the commands all polls returned together with the commands still
\* pending are, as a multiset, the commands injected; none is lost, none is
\* delivered twice.
C2_NoLossNoDuplicate ==
    InFlight = 0
        => \A k \in QueueKeys :
               BagOfSeq(got[k]) (+) BagOfSeq(Queue(k)) = BagOfSeq(sent[k])

\* C3 - Empty poll: a poll of an identifier with no queue or an empty queue
\* answers ok with an empty devices list and changes none of the three
\* stores, every time.
C3_EmptyPollNoEffect ==
    [][ (event'.op = "poll" /\ event'.before = <<>>)
            => /\ event'.response = Returned([ok |-> TRUE, devices |-> <<>>])
               /\ stores' = stores ]_vars

C3_Witness ==
    /\ event.op = "poll"
    /\ event.mac = "GW_B"
    /\ "GW_B" \notin DOMAIN command_queue
    /\ event.response.body.devices = <<>>
    /\ "GW_A" \in DOMAIN registered_gateways
    /\ "ND_01" \in DOMAIN node_status
    /\ Queue("GW_A") # <<>>

\* The request of event e is an inject or a poll that names identifier g.
Addressed(e, g) ==
    \/ e.op = "poll" /\ e.mac = g
    \/ e.op = "inject" /\ "gateway_mac" \in DOMAIN e.body /\ e.body.gateway_mac = g

C5_OperationsAlwaysSucceed ==
    /\ "response" \in DOMAIN event => IsOk(event.response)
    /\ event.op = "inject"
           => \E k \in DOMAIN command_queue :
                  command_queue[k] = event.before \o Get(event.body, "commands", <<>>)

\* The stored node record without its timestamp.
Reading(rec) == [f \in {"brightness", "lux", "current", "gateway"} |-> rec[f]]

\* The reading the specification gives an update u relayed by gw: absent
\* fields are 0.
ExpectedReading(u, gw) ==
    [f \in {"brightness", "lux", "current", "gateway"} |->
        IF f = "gateway" THEN gw ELSE IF f \in DOMAIN u THEN u[f] ELSE 0]

\* C6 - Report overwrite: node_status holds exactly one record per reported
\* deviceId, and that record is the last processed update for the deviceId,
\* absent fields 0, gateway the gw_id of that report.
C6_ReportOverwrites ==
    /\ DOMAIN node_status = DOMAIN last_update
    /\ \A d \in DOMAIN node_status :
           /\ Reading(node_status[d])
                  = ExpectedReading(last_update[d].update, last_update[d].gw_id)
           /\ node_status[d].timestamp \in 0..now

C6_Witness ==
    /\ event.op = "report"
    /\ "ND_01" \in event.overwrote
    /\ last_update["ND_01"] = [update |-> UpdPart, gw_id |-> "GW_B"]
    /\ node_status["ND_01"].lux = 0
    /\ node_status["ND_01"].gateway = "GW_B"
    /\ "ND_02" \in DOMAIN node_status

\* C7 - Missing identifiers: a register without mac, a report without gw_id,
\* a node update without deviceId and an inject without gateway_mac are each
\* stored under "UNKNOWN" and under nothing else.
C7_MissingIdentifierIsUnknown ==
    /\ (event.op = "register" /\ "mac" \notin DOMAIN event.body)
           => /\ UNKNOWN \in DOMAIN registered_gateways
              /\ event.response = Returned([ok |-> TRUE, deviceId |-> UNKNOWN])
    /\ (event.op = "report" /\ "gw_id" \notin event.fields)
           => \A d \in DOMAIN last_update :
                  last_update[d].gw_id = UNKNOWN => node_status[d].gateway = UNKNOWN
    /\ (event.op = "report" /\ event.unnamed # {})
           => UNKNOWN \in DOMAIN node_status
    /\ (event.op = "inject" /\ "gateway_mac" \notin DOMAIN event.body)
           => UNKNOWN \in DOMAIN command_queue
    /\ DOMAIN command_queue \subseteq Macs \cup {UNKNOWN}

\* C8 - Registration is idempotent on the identifiers: there is one gateway
\* record for each identifier registered so far and no other, and registering
\* a registered identifier leaves the number of records as it was.
C8_RegistrationCount ==
    /\ DOMAIN registered_gateways = registrations
    /\ Cardinality(DOMAIN registered_gateways) = Cardinality(registrations)
    /\ (event.op = "register" /\ Identifier(event.body, "mac") \in event.known)
           => Cardinality(DOMAIN registered_gateways) = Cardinality(event.known)

C8_Witness ==
    /\ event.op = "register"
    /\ Identifier(event.body, "mac") \in event.known
    /\ Cardinality(DOMAIN registered_gateways) = 2
    /\ registered_gateways["GW_A"].registered_at = MaxTime

\* C9 - Availability at next poll: a poll of G returns every command that was
\* appended to G's queue before it and not returned earlier, so after a poll
\* of G the commands polls of G have returned are the commands injected for
\* G, each once, in order.
C9_DeliveredByNextPoll ==
    event.op = "poll" => got[event.mac] = sent[event.mac]

\* C10 - Inject enqueues and reports its count: inject(G, cmds) leaves G with
\* a queue that is its earlier contents followed by cmds, and answers ok with
\* "Added n command(s) to queue", n the number of commands supplied.
C10_InjectAppendsAndCounts ==
    (event.op = "inject" /\ "gateway_mac" \in DOMAIN event.body)
        => LET G == event.body.gateway_mac
               cmds == Get(event.body, "commands", <<>>)
           IN  /\ G \in DOMAIN command_queue
               /\ command_queue[G] = event.before \o cmds
               /\ event.response
                      = Returned([ok |-> TRUE, message |-> AddedMessage(Len(cmds))])

\* C11 - Snapshot is read-only and exact: test-status changes none of the
\* three stores and returns the registered identifiers, every node status
\* record, and for every identifier that has a queue the number of commands
\* pending in it.
C11_SnapshotReadOnlyExact ==
    [][ event'.op = "status"
            => /\ stores' = stores
               /\ event'.response.status = 200
               /\ event'.response.body.ok
               /\ event'.response.body.registered_gateways = DOMAIN registered_gateways
               /\ event'.response.body.node_status = node_status
               /\ DOMAIN event'.response.body.command_queues = DOMAIN command_queue
               /\ \A k \in DOMAIN command_queue :
                      event'.response.body.command_queues[k] = Len(command_queue[k]) ]_vars

C11_Witness ==
    /\ event.op = "status"
    /\ event.response.body.registered_gateways = {"GW_A", UNKNOWN}
    /\ "ND_01" \in DOMAIN event.response.body.node_status
    /\ DOMAIN event.response.body.command_queues = {"GW_A", "GW_B", UNKNOWN}
    /\ event.response.body.command_queues["GW_B"] = 1
    /\ event.response.body.command_queues["GW_A"] = 0
    /\ got["GW_A"] # <<>>

\* C12 - Batch atomicity of inject: the commands of one inject call are
\* appended as a unit; under any interleaving with polls and other injects to
\* the same gateway, a queue is whole batches end to end in injection order,
\* each inject puts its batch after what was pending, and a poll that finds
\* commands returns every pending batch whole, contiguous and in the supplied
\* order, leaving no part of a batch for another poll.
C12_BatchAtomicity ==
    /\ \A k \in QueueKeys : Queue(k) = Flatten(batches[k])
    /\ event.op = "inject"
           => Queue(Get(event.body, "gateway_mac", PyNone))
                  = event.before \o Get(event.body, "commands", <<>>)
    /\ (event.op = "poll" /\ event.batches # <<>>)
           => /\ IsOk(event.response)
              /\ event.response.body.devices = Flatten(event.batches)
              /\ batches[event.mac] = <<>>

\* C13 - Register preserves pending commands: register(id) creates an empty
\* queue for id only when id has none; a queue that exists, id's included,
\* keeps its contents and order, so the commands pending for id at a
\* registration or re-registration are returned by the next poll of id.
C13_RegisterPreservesPending ==
    [][ /\ event'.op = "register"
            => LET id == Identifier(event'.body, "mac")
               IN  /\ DOMAIN command_queue' = DOMAIN command_queue \cup {id}
                   /\ \A k \in DOMAIN command_queue : command_queue'[k] = command_queue[k]
                   /\ id \notin DOMAIN command_queue => command_queue'[id] = <<>>
        /\ ( /\ event.op = "register"
             /\ event'.op = "poll"
             /\ event'.mac = Identifier(event.body, "mac") )
            => event'.response = Returned([ok |-> TRUE, devices |-> Queue(event'.mac)])
      ]_vars

\* C14 - Re-registration overwrites the whole gateway record: a register call
\* for id leaves id a record whose registered_at and last_seen are both clock
\* readings of that call (between the clock at its start and at its end,
\* registered_at read first), whatever record id had; every step that is not
\* a register call for id leaves id's record as it is.  So after any sequence
\* of register calls the record carries the most recent call's time and never
\* the first registration's.
C14_ReRegistrationOverwrites ==
    [][ \A id \in DOMAIN registered_gateways' :
            IF event'.op = "register" /\ Identifier(event'.body, "mac") = id
            THEN /\ registered_gateways'[id].mac = id
                 /\ DOMAIN registered_gateways'[id] = {"mac", "registered_at", "last_seen"}
                 /\ registered_gateways'[id].registered_at \in now..now'
                 /\ registered_gateways'[id].last_seen \in now..now'
                 /\ registered_gateways'[id].registered_at <= registered_gateways'[id].last_seen
            ELSE /\ id \in DOMAIN registered_gateways
                 /\ registered_gateways'[id] = registered_gateways[id] ]_vars

C14_Witness ==
    /\ event.op = "register"
    /\ Identifier(event.body, "mac") = "GW_A"
    /\ "GW_A" \in event.known
    /\ registered_gateways["GW_A"].registered_at = MaxTime
    /\ registered_gateways["GW_A"].last_seen = MaxTime
    /\ "GW_B" \in DOMAIN registered_gateways
    /\ registered_gateways["GW_B"].last_seen < MaxTime

\* C15 - Per-key atomicity of reports: with report handlers in flight
\* together and naming the same deviceId, every step leaves each record
\* either exactly as it was or equal in brightness, lux, current and gateway
\* to one update of the report handled in that step, relayed by that report's
\* gw_id; only a report step changes a record.  Records start absent, so in
\* every reachable state a record is one report's update and never a mix of
\* the fields of two.
C15_PerKeyAtomicity ==
    [][ \A d \in DOMAIN node_status' :
            \/ d \in DOMAIN node_status /\ node_status'[d] = node_status[d]
            \/ /\ event'.op = "report"
               /\ last_update'[d].gw_id = event'.gw_id
               /\ Identifier(last_update'[d].update, "deviceId") = d
               /\ Reading(node_status'[d])
                      = ExpectedReading(last_update'[d].update, event'.gw_id) ]_vars

C15_Witness ==
    /\ event.op = "report"
    /\ awaiting["report"] >= 1
    /\ event.gw_id = "GW_A"
    /\ "ND_01" \in event.overwrote
    /\ Reading(node_status["ND_01"]) = ExpectedReading(UpdFull, "GW_A")
    /\ node_status["ND_01"].timestamp = MaxTime

\* C16 - Keys are never deleted: no step removes a key from
\* registered_gateways, node_status or command_queue; a drain empties the
\* polled queue and keeps its entry.
C16_KeysNeverDeleted ==
    [][ /\ DOMAIN registered_gateways \subseteq DOMAIN registered_gateways'
        /\ DOMAIN node_status \subseteq DOMAIN node_status'
        /\ DOMAIN command_queue \subseteq DOMAIN command_queue'
        /\ (event'.op = "poll" /\ event'.before # <<>>)
               => /\ event'.mac \in DOMAIN command_queue'
                  /\ command_queue'[event'.mac] = <<>> ]_vars

C16_Witness ==
    /\ event.op = "poll"
    /\ event.before = <<CmdA>>
    /\ DOMAIN command_queue = {"GW_A", "GW_B", UNKNOWN}
    /\ command_queue["GW_A"] = <<>>
    /\ DOMAIN registered_gateways = {"GW_B", UNKNOWN}
    /\ DOMAIN node_status = {"ND_01"}

\* C17 - Gateway records change only on register: a report, poll, inject or
\* test-status step leaves registered_gateways as it was (no gateway is
\* registered and no last_seen moves); a report is answered ok and its
\* updates are stored under its gw_id whether or not that gateway is
\* registered; a register, poll or inject step leaves node_status as it was,
\* and a report step leaves command_queue as it was.
C17_RegistryChangesOnlyOnRegister ==
    [][ /\ event'.op \in {"report", "poll", "inject", "status"}
            => registered_gateways' = registered_gateways
        /\ event'.op \in {"register", "poll", "inject"}
            => node_status' = node_status
        /\ event'.op = "report"
            => /\ command_queue' = command_queue
               /\ event'.response = Returned([ok |-> TRUE])
               /\ \A d \in DOMAIN last_update' :
                      \/ d \in DOMAIN last_update /\ last_update'[d] = last_update[d]
                      \/ /\ d \in DOMAIN node_status'
                         /\ node_status'[d].gateway = event'.gw_id
                         /\ Reading(node_status'[d])
                                = ExpectedReading(last_update'[d].update, event'.gw_id)
      ]_vars

C17_Witness ==
    /\ event.op = "report"
    /\ event.gw_id = "GW_A"
    /\ DOMAIN registered_gateways = {"GW_B"}
    /\ registered_gateways["GW_B"].last_seen = 0
    /\ now = MaxTime
    /\ node_status["ND_01"].gateway = "GW_A"
    /\ got["GW_A"] = <<CmdA>>
    /\ Queue("GW_B") = <<CmdA>>

\* C18 - State unchanged on error: a handler run that does not return its ok
\* response leaves registered_gateways, node_status and command_queue as
\* they were when it started; a poll that shortens a queue returns the
\* removed commands in an ok response, and an inject that lengthens a queue
\* returns ok.
C18_StateUnchangedOnError ==
    [][ /\ ( /\ event'.op \in {"register", "report", "poll", "inject", "status"}
             /\ ~IsOk(event'.response) )
            => stores' = stores
        /\ ( /\ event'.op = "poll"
             /\ Pending(command_queue', event'.mac) # Pending(command_queue, event'.mac) )
            => /\ IsOk(event'.response)
               /\ Pending(command_queue, event'.mac)
                      = event'.response.body.devices \o Pending(command_queue', event'.mac)
        /\ ( /\ event'.op = "inject"
             /\ command_queue' # command_queue )
            => IsOk(event'.response) ]_vars

\* C19 - Every registered gateway has a queue: in every reachable state each
\* key of registered_gateways is a key of command_queue, and a test-status
\* answer has a command_queues entry for every identifier it lists in
\* registered_gateways.  (The witness is a state where the converse fails.)
C19_RegisteredHasQueue ==
    /\ DOMAIN registered_gateways \subseteq DOMAIN command_queue
    /\ event.op = "status"
           => event.response.body.registered_gateways
                  \subseteq DOMAIN event.response.body.command_queues

C19_Witness ==
    /\ event.op = "status"
    /\ event.response.body.registered_gateways = {"GW_A"}
    /\ DOMAIN event.response.body.command_queues = {"GW_A", "GW_B"}
    /\ "GW_B" \in DOMAIN command_queue \ DOMAIN registered_gateways
    /\ sent["GW_A"] = <<>>

====
